---- MODULE Spec2Model ----
(***************************************************************************)
(* Render pipeline of the video editor backend: job creation and the      *)
(* thread pool (services/jobs.py), the worker's render_job with its graph *)
(* builder, duration probe, progress read loop and terminal transitions   *)
(* (services/video_renderer.py), over the RenderJob record                *)
(* (models/job.py).                                                        *)
(*                                                                         *)
(* Progress is a Python float; here it is an integer number of percent.   *)
(* The modelled durations and out_time_ms values are chosen so that       *)
(* elapsed / duration * 100 is a whole number, hence the integer quotient *)
(* below is the value the float expression yields.                        *)
(***************************************************************************)
EXTENDS Integers, Sequences, FiniteSets, TLC

\* ------------------------------------------------------------------ bounds
MaxJobs == 3
MaxRenders == 2

\* --------------------------------------------------------------- constants
MAX_WORKERS == 2

\* Optional values: Python's None is the empty tuple, a value v is <<v>>.
None == <<>>
Some(v) == <<v>>

\* Mutant: the pool is built one thread too large.
WorkersOversized == 1..(MAX_WORKERS + 1)

Workers == 1..MAX_WORKERS

ASSETS_DIR == <<"/", "app", "assets">>
OUTPUT_DIR == <<"/", "app", "data", "outputs">>
UPLOAD_DIR == <<"/", "app", "data", "uploads">>

\* ------------------------------------------------------------ file system
\* Paths are sequences of components; an absolute path starts with "/".
FileSystem ==
    { ASSETS_DIR \o <<"logo.png">>,
      <<"/", "media", "clip.mp4">> }

isabs(path) == Len(path) > 0 /\ path[1] = "/"

exists(path) == path \in FileSystem

\* os.path.join(a, b): an absolute second argument replaces the first.
join(a, b) == IF isabs(b) THEN b ELSE a \o b

\* ---------------------------------------------------------------- overlays
OverlayTypes == {"text", "image", "video"}

\* An Overlay with its optional styling fields left out (None). The
\* position, the time window, the font size and the box border width are
\* numbers formatted into the stage's options as they are; the model leaves
\* them out.
Overlay(type, content) ==
    [type |-> type, content |-> content,
     color |-> None, box |-> None, box_color |-> None]

TextOverlay == Overlay("text", <<"a", ":", "b">>)
LogoOverlay == Overlay("image", <<"logo.png">>)
ClipOverlay == Overlay("video", <<"/", "media", "clip.mp4">>)
GoneOverlay == Overlay("image", <<"gone.png">>)
AbsGoneOverlay == Overlay("video", <<"/", "media", "gone.mp4">>)

\* The overlay lists clients submit (already validated by upload_job) in
\* the queueing specification.
OverlayLists ==
    { <<TextOverlay, LogoOverlay, ClipOverlay>>,
      <<ClipOverlay, GoneOverlay>> }

\* The overlay lists of the progress specification.
RenderLists ==
    { <<>>,
      <<LogoOverlay, GoneOverlay>>,
      <<AbsGoneOverlay>> }

\* Mutant: the candidate in the assets directory is returned unchecked.
resolve_overlay_path_unchecked(content) ==
    IF isabs(content) /\ exists(content)
    THEN [raised |-> FALSE, path |-> content]
    ELSE [raised |-> FALSE, path |-> join(ASSETS_DIR, content)]

\* resolve_overlay_path: the resolved path, or the FileNotFoundError raised.
resolve_overlay_path(content) ==
    LET candidate == join(ASSETS_DIR, content)
    IN  IF isabs(content) /\ exists(content)
        THEN [raised |-> FALSE, path |-> content]
        ELSE IF exists(candidate)
        THEN [raised |-> FALSE, path |-> candidate]
        ELSE [raised |-> TRUE,
              error |-> [type |-> "FileNotFoundError",
                         text |-> <<"Overlay asset not found", content, candidate>>]]

\* ------------------------------------------------------------ filter graph
\* Strings are sequences of one-character strings.
\* str.strip(): drop leading and trailing blanks.
RECURSIVE strip(_)
strip(s) ==
    IF Len(s) = 0 THEN s
    ELSE IF s[1] = " " THEN strip(Tail(s))
    ELSE IF s[Len(s)] = " " THEN strip(SubSeq(s, 1, Len(s) - 1))
    ELSE s

\* s.replace(c, r) for a one-character c.
RECURSIVE replace(_, _, _)
replace(s, c, r) ==
    IF Len(s) = 0 THEN <<>>
    ELSE (IF s[1] = c THEN r ELSE <<s[1]>>) \o replace(Tail(s), c, r)

\* F(x) with its argument evaluated once, to a value, before F is applied;
\* plain operator application substitutes the argument expression.
Once(F(_), x) == CHOOSE y \in { F(v) : v \in { x } } : TRUE

EscapeColons(s) == replace(s, ":", <<"\\", ":">>)
EscapeQuotes(s) == replace(s, "'", <<"\\", "'">>)

\* .replace(":", "\\:").replace("'", "\\'")
escape(s) == Once(EscapeQuotes, Once(EscapeColons, s))

\* value or default: None and the empty string give the default.
OrDefault(value, default) ==
    IF value = None THEN default
    ELSE IF Len(value[1]) = 0 THEN default
    ELSE value[1]

\* Labels: [k:v] is the video of engine input k, [vN], [ovN] and [padN] are
\* the outputs of the stages built for label index N.
InputLabel(k) == <<":v", k>>
PrimaryLabel == InputLabel(0)
VideoLabel(i) == <<"v", i>>
ScaledLabel(i) == <<"ov", i>>
PaddedLabel(i) == <<"pad", i>>

\* The chain of a text overlay: one drawtext stage.
DrawtextChain(o, current_label, out_label) ==
    LET text == escape(o.content)
        font_color == escape(strip(OrDefault(o.color, <<"w", "h", "i", "t", "e">>)))
        box_enabled == IF o.box = None THEN TRUE ELSE o.box[1]
        box_color == escape(strip(OrDefault(o.box_color,
                            <<"b", "l", "a", "c", "k", "@", "0", ".", "5">>)))
    IN  << [filter |-> "drawtext",
            inputs |-> <<current_label>>,
            text |-> text,
            fontcolor |-> font_color,
            boxcolor |-> IF box_enabled THEN Some(box_color) ELSE None,
            out |-> out_label] >>

\* InputIndex counted from zero, as list positions are.
InputIndexFromZero(extra_inputs) == Len(extra_inputs) - 1

\* The input index of the asset appended last: input 0 is the base video.
InputIndex(extra_inputs) == Len(extra_inputs)

\* MediaChain with the asset composited over the base video instead of the
\* current label.
MediaChainOverBase(input_index, label_index, current_label, out_label) ==
    << [filter |-> "scale",
        inputs |-> <<InputLabel(input_index)>>,
        out |-> ScaledLabel(label_index)],
       [filter |-> "pad",
        inputs |-> <<ScaledLabel(label_index)>>,
        out |-> PaddedLabel(label_index)],
       [filter |-> "overlay",
        inputs |-> <<PrimaryLabel, PaddedLabel(label_index)>>,
        out |-> out_label] >>

\* The chain of an image or video overlay: scale the asset, pad it, and
\* composite it over the current label.
MediaChain(input_index, label_index, current_label, out_label) ==
    << [filter |-> "scale",
        inputs |-> <<InputLabel(input_index)>>,
        out |-> ScaledLabel(label_index)],
       [filter |-> "pad",
        inputs |-> <<ScaledLabel(label_index)>>,
        out |-> PaddedLabel(label_index)],
       [filter |-> "overlay",
        inputs |-> <<current_label, PaddedLabel(label_index)>>,
        out |-> out_label] >>

\* Skip with the label counter advanced for the overlay that was skipped.
SkipAdvances(st) == [st EXCEPT !.label_index = @ + 1]

\* An overlay of any other kind: `continue`, the loop state is untouched.
Skip(st) == st

\* The loop of build_filter_complex from overlay number i on; st carries
\* chains, extra_inputs, current_label and label_index, assigned once per
\* iteration.
RECURSIVE BuildLoop(_, _, _)
BuildLoop(overlays, i, st) ==
    IF i > Len(overlays)
    THEN [raised |-> FALSE,
          filter_complex |-> st.chains,
          extra_inputs |-> st.extra_inputs,
          final_label |-> Some(st.current_label)]
    ELSE
      LET o == overlays[i]
          out_label == VideoLabel(st.label_index)
          Iterate(next) == BuildLoop(overlays, i + 1, next)
      IN  IF o.type = "text"
          THEN Once(Iterate,
                 [chains |-> Append(st.chains,
                                DrawtextChain(o, st.current_label, out_label)),
                  extra_inputs |-> st.extra_inputs,
                  current_label |-> out_label,
                  label_index |-> st.label_index + 1])
          ELSE IF o.type \in {"image", "video"}
          THEN LET r == resolve_overlay_path(o.content)
               IN  IF r.raised
                   THEN [raised |-> TRUE, error |-> r.error]
                   ELSE LET extra_inputs == Append(st.extra_inputs, r.path)
                        IN  Once(Iterate,
                              [chains |-> Append(st.chains,
                                             MediaChain(InputIndex(extra_inputs),
                                                        st.label_index,
                                                        st.current_label,
                                                        out_label)),
                               extra_inputs |-> extra_inputs,
                               current_label |-> out_label,
                               label_index |-> st.label_index + 1])
          ELSE Once(Iterate, Skip(st))

\* build_filter_complex: the chains (joined by "; " into the graph string),
\* the extra inputs and the final label, or the exception raised.
build_filter_complex(overlays) ==
    IF Len(overlays) = 0
    THEN [raised |-> FALSE, filter_complex |-> <<>>,
          extra_inputs |-> <<>>, final_label |-> None]
    ELSE BuildLoop(overlays, 1,
           [chains |-> <<>>, extra_inputs |-> <<>>,
            current_label |-> PrimaryLabel, label_index |-> 0])

\* ------------------------------------------------------------ text parsing
Digits == {"0", "1", "2", "3", "4", "5", "6", "7", "8", "9"}

DigitVal(c) ==
    CASE c = "0" -> 0 [] c = "1" -> 1 [] c = "2" -> 2 [] c = "3" -> 3
      [] c = "4" -> 4 [] c = "5" -> 5 [] c = "6" -> 6 [] c = "7" -> 7
      [] c = "8" -> 8 [] c = "9" -> 9

AllDigits(s) == Len(s) > 0 /\ \A k \in 1..Len(s) : s[k] \in Digits

RECURSIVE DigitsValue(_)
DigitsValue(s) ==
    IF Len(s) = 0 THEN 0
    ELSE 10 * DigitsValue(SubSeq(s, 1, Len(s) - 1)) + DigitVal(s[Len(s)])

\* int(raw_val): an optional sign and decimal digits; anything else raises
\* ValueError.
int(raw_val) ==
    LET s == strip(raw_val)
        signed == Len(s) > 0 /\ s[1] \in {"-", "+"}
        body == IF signed THEN Tail(s) ELSE s
    IN  IF AllDigits(body)
        THEN [raised |-> FALSE,
              value |-> IF signed /\ s[1] = "-"
                        THEN 0 - DigitsValue(body) ELSE DigitsValue(body)]
        ELSE [raised |-> TRUE, value |-> 0]

\* Position of the first "." of s, or 0.
RECURSIVE DotAt(_, _)
DotAt(s, k) ==
    IF k > Len(s) THEN 0 ELSE IF s[k] = "." THEN k ELSE DotAt(s, k + 1)

\* float(out) for the decimal literals ffprobe prints ("10.000000"): whole
\* part, ".", fraction.  The modelled durations are whole seconds, so the
\* value is the whole part; a literal with a non-zero fraction is outside
\* the modelled inputs.  Anything else raises ValueError.
float(out) ==
    LET s == strip(out)
        d == DotAt(s, 1)
        whole == IF d = 0 THEN s ELSE SubSeq(s, 1, d - 1)
        frac == IF d = 0 THEN <<"0">> ELSE SubSeq(s, d + 1, Len(s))
    IN  IF AllDigits(whole) /\ AllDigits(frac) /\ DigitsValue(frac) = 0
        THEN [raised |-> FALSE, value |-> DigitsValue(whole)]
        ELSE [raised |-> TRUE, value |-> 0]

\* ---------------------------------------------------------- duration probe
\* What running ffprobe can give: an exception from subprocess.run, or a
\* return code and the text on stdout.
ProbeOutcomes ==
    { [exception |-> TRUE, returncode |-> 0, stdout |-> <<>>],
      [exception |-> FALSE, returncode |-> 1, stdout |-> <<>>],
      [exception |-> FALSE, returncode |-> 0, stdout |-> <<"N", "/", "A">>],
      [exception |-> FALSE, returncode |-> 0, stdout |-> <<"0", ".", "0">>],
      [exception |-> FALSE, returncode |-> 0, stdout |-> <<"1", "0", ".", "0", " ">>] }

get_video_duration_seconds(run) ==
    IF run.exception THEN None
    ELSE IF run.returncode # 0 THEN None
    ELSE LET out == strip(run.stdout)
             f == float(out)
         IN  IF f.raised THEN None ELSE Some(f.value)

\* ---------------------------------------------------------- progress lines
\* A line of the engine's side channel, "key=value", as the key before the
\* first "=" and the characters after it.
ProgressLines ==
    { [key |-> "out_time_ms", raw |-> <<"0">>],
      [key |-> "out_time_ms", raw |-> <<"1", "0", "0", "0", "0", "0", "0">>],
      [key |-> "out_time_ms", raw |-> <<"5", "0", "0", "0", "0", "0", "0">>],
      [key |-> "out_time_ms", raw |-> <<"1", "2", "0", "0", "0", "0", "0", "0">>],
      [key |-> "out_time_ms", raw |-> <<"-", "1", "0", "0", "0", "0", "0", "0">>],
      [key |-> "out_time_ms", raw |-> <<"N", "/", "A">>],
      [key |-> "progress", raw |-> <<"c", "o", "n", "t", "i", "n", "u", "e">>] }

\* The lines the queueing specification lets the engine print.
QueueLines ==
    { [key |-> "out_time_ms", raw |-> <<"5", "0", "0", "0", "0", "0", "0">>],
      [key |-> "out_time_ms", raw |-> <<"N", "/", "A">>] }

Min(a, b) == IF a <= b THEN a ELSE b

\* Mutant: the cap is 100 instead of 99.
PercentCap100(ms, duration) == Min(100, (ms * 100) \div (1000000 * duration))

\* Mutant: out_time_ms is taken for milliseconds.
PercentMillis(ms, duration) == Min(99, (ms * 100) \div (1000 * duration))

\* pct = min(99.0, (ms / 1_000_000.0 / duration) * 100.0)
Percent(ms, duration) == Min(99, (ms * 100) \div (1000000 * duration))

\* ProgressOf with an unknown or non-positive duration taken as one second
\* (`duration or 1`).
ProgressOfDefaultDuration(line, duration) ==
    IF line.key = "out_time_ms"
    THEN LET raw_val == strip(line.raw)
             ms == int(raw_val)
             seconds == IF duration = None THEN 1
                        ELSE IF duration[1] > 0 THEN duration[1] ELSE 1
         IN  IF ms.raised THEN None
             ELSE Some(Percent(ms.value, seconds))
    ELSE None

\* One iteration of the read loop on `line` with the probed duration:
\* the progress to write, or None when the line is skipped.
ProgressOf(line, duration) ==
    IF line.key = "out_time_ms" /\ duration # None /\ duration[1] > 0
    THEN LET raw_val == strip(line.raw)
             ms == int(raw_val)
         IN  IF ms.raised THEN None
             ELSE Some(Percent(ms.value, duration[1]))
    ELSE None

ExitCodes == {0, 2}

\* -------------------------------------------------------------------- state
VARIABLES
    jobs,       \* the render_jobs table: job id -> committed RenderJob row
    queue,      \* the executor's work queue of job ids, oldest first
    pc,         \* where each worker thread stands in render_job
    cur,        \* the job id a worker is running, 0 when it has none
    duration,   \* a worker's probed duration
    line,       \* the line a worker's read loop handled last
    procs,      \* the engine subprocess started for each job
    graph       \* a direct call of build_filter_complex: argument and result

vars == <<jobs, queue, pc, cur, duration, line, procs, graph>>

JobIds == 1..Len(jobs)

NoProc == [state |-> "none", cmd |-> <<>>, returncode |-> None]

NoGraph == [overlays |-> <<>>, result |-> None, cmd |-> None]

Init ==
    /\ jobs = <<>>
    /\ queue = <<>>
    /\ pc = [w \in Workers |-> "idle"]
    /\ cur = [w \in Workers |-> 0]
    /\ duration = [w \in Workers |-> None]
    /\ line = [w \in Workers |-> None]
    /\ procs = <<>>
    /\ graph = NoGraph

\* Release with the thread lost: the exception that ended the work item also
\* ends the executor thread that ran it.
ReleaseThreadDies(w) ==
    /\ pc' = [pc EXCEPT ![w] = "dead"]
    /\ cur' = [cur EXCEPT ![w] = 0]
    /\ duration' = [duration EXCEPT ![w] = None]
    /\ line' = [line EXCEPT ![w] = None]

\* The worker leaves render_job and _run_job_in_thread: its locals are gone
\* and the thread goes back to the executor's queue.
Release(w) ==
    /\ pc' = [pc EXCEPT ![w] = "idle"]
    /\ cur' = [cur EXCEPT ![w] = 0]
    /\ duration' = [duration EXCEPT ![w] = None]
    /\ line' = [line EXCEPT ![w] = None]

\* create_job: insert the row as pending and submit it to the executor.
create_job(overlays) ==
    /\ LET id == Len(jobs) + 1
       IN  /\ jobs' = Append(jobs,
                        [input_path |-> join(UPLOAD_DIR, <<ToString(id), ".mp4">>),
                         overlays |-> overlays,
                         status |-> "pending",
                         message |-> <<"Queued">>,
                         progress |-> 0,
                         output_path |-> None])
           /\ procs' = Append(procs, NoProc)
           /\ queue' = Append(queue, id)
    /\ UNCHANGED <<pc, cur, duration, line>>
    /\ UNCHANGED graph

\* _run_job_in_thread with the work item left in the queue.
_run_job_in_thread_peek(w) ==
    /\ pc[w] = "idle"
    /\ queue # <<>>
    /\ cur' = [cur EXCEPT ![w] = Head(queue)]
    /\ queue' = queue
    /\ pc' = [pc EXCEPT ![w] = "render_job"]
    /\ UNCHANGED <<jobs, duration, line, procs>>
    /\ UNCHANGED graph

\* _run_job_in_thread fed from a stack: the idle thread takes the newest
\* work item.
_run_job_in_thread_newest(w) ==
    /\ pc[w] = "idle"
    /\ queue # <<>>
    /\ cur' = [cur EXCEPT ![w] = queue[Len(queue)]]
    /\ queue' = SubSeq(queue, 1, Len(queue) - 1)
    /\ pc' = [pc EXCEPT ![w] = "render_job"]
    /\ UNCHANGED <<jobs, duration, line, procs>>
    /\ UNCHANGED graph

\* An idle executor thread takes the oldest work item and enters
\* _run_job_in_thread.
_run_job_in_thread(w) ==
    /\ pc[w] = "idle"
    /\ queue # <<>>
    /\ cur' = [cur EXCEPT ![w] = Head(queue)]
    /\ queue' = Tail(queue)
    /\ pc' = [pc EXCEPT ![w] = "render_job"]
    /\ UNCHANGED <<jobs, duration, line, procs>>
    /\ UNCHANGED graph

\* Mutant: the first commit leaves the status as it was.
MarkProcessingKeepsStatus(job) ==
    [job EXCEPT !.message = <<"Processing with ffmpeg">>,
                !.progress = 1]

\* The row render_job commits first.
MarkProcessing(job) ==
    [job EXCEPT !.status = "processing",
                !.message = <<"Processing with ffmpeg">>,
                !.progress = 1]

\* Overlay(**o) for each stored overlay: pydantic accepts the three types.
ValidOverlays(overlays) ==
    \A k \in 1..Len(overlays) : overlays[k].type \in OverlayTypes

\* render_job before its try block: the job becomes processing, then the
\* worker reads input_path and overlays back and rebuilds the Overlay objects
\* (a stored overlay pydantic rejects raises out of render_job here).
Pickup(w) ==
    /\ pc[w] = "render_job"
    /\ IF cur[w] \in JobIds
       THEN /\ jobs' = [jobs EXCEPT ![cur[w]] = MarkProcessing(@)]
            /\ IF ValidOverlays(jobs[cur[w]].overlays)
               THEN /\ pc' = [pc EXCEPT ![w] = "try"]
                    /\ UNCHANGED <<cur, duration, line>>
               ELSE Release(w)
       ELSE /\ Release(w)
            /\ UNCHANGED jobs
    /\ UNCHANGED <<queue, procs>>
    /\ UNCHANGED graph

str(e) == e.text

\* The except clauses of render_job.
HandleException(job, e) ==
    IF e.type = "FileNotFoundError"
    THEN [job EXCEPT !.status = "error", !.message = str(e)]
    ELSE [job EXCEPT !.status = "error", !.message = <<"Exception", str(e)>>]

\* os.path.join(OUTPUT_DIR, f"{job.id}_output.mp4"); the file name is kept as
\* its two pieces, the id and the suffix.
OutputPath(id) == join(OUTPUT_DIR, <<ToString(id), "_output.mp4">>)

\* Command without the passthrough branch: the filtering command line is
\* built whatever the graph is.
CommandAlwaysFilters(job, g, output_path) ==
    [inputs |-> <<job.input_path>> \o g.extra_inputs,
     filter_complex |-> g.filter_complex,
     map |-> <<g.final_label, <<"0:a?">> >>,
     codecs |-> <<"libx264", "aac">>,
     output |-> output_path]

\* The command line render_job builds: the inputs in order and the options.
Command(job, g, output_path) ==
    IF Len(g.filter_complex) = 0
    THEN [inputs |-> <<job.input_path>>,
          filter_complex |-> <<>>,
          map |-> <<>>,
          codecs |-> <<"copy", "copy">>,
          output |-> output_path]
    ELSE [inputs |-> <<job.input_path>> \o g.extra_inputs,
          filter_complex |-> g.filter_complex,
          map |-> <<g.final_label, <<"0:a?">> >>,
          codecs |-> <<"libx264", "aac">>,
          output |-> output_path]

\* The try block up to the read loop: build the graph, probe the duration,
\* build the command and start the engine.  A FileNotFoundError of the graph
\* builder goes to the except clause before anything is started.
StartEngine(w, run) ==
    /\ pc[w] = "try"
    /\ \E r \in { build_filter_complex(jobs[cur[w]].overlays) } :
           IF r.raised
           THEN /\ jobs' = [jobs EXCEPT ![cur[w]] = HandleException(@, r.error)]
                /\ Release(w)
                /\ UNCHANGED procs
           ELSE /\ duration' = [duration EXCEPT ![w] = get_video_duration_seconds(run)]
                /\ procs' = [procs EXCEPT ![cur[w]] =
                               [state |-> "running",
                                cmd |-> Command(jobs[cur[w]], r, OutputPath(cur[w])),
                                returncode |-> None]]
                /\ pc' = [pc EXCEPT ![w] = "read"]
                /\ UNCHANGED <<jobs, cur, line>>
    /\ UNCHANGED queue
    /\ UNCHANGED graph

\* One iteration of `for line in proc.stderr`.
ReadLine(w, l) ==
    /\ pc[w] = "read"
    /\ line' = [line EXCEPT ![w] = Some(l)]
    /\ LET pct == ProgressOf(l, duration[w])
       IN  IF pct = None
           THEN UNCHANGED jobs
           ELSE jobs' = [jobs EXCEPT ![cur[w]].progress = pct[1]]
    /\ UNCHANGED <<queue, pc, cur, duration, procs>>
    /\ UNCHANGED graph

\* Mutant: the success branch does not set progress.
OutcomeKeepsProgress(job, returncode, output_path) ==
    IF returncode # 0
    THEN [job EXCEPT !.status = "error", !.message = <<"FFmpeg failed">>]
    ELSE [job EXCEPT !.status = "done",
                     !.message = <<"Rendering complete">>,
                     !.output_path = Some(output_path)]

\* Mutant: the failure branch resets progress.
OutcomeResetsProgress(job, returncode, output_path) ==
    IF returncode # 0
    THEN [job EXCEPT !.status = "error", !.message = <<"FFmpeg failed">>,
                     !.progress = 0]
    ELSE [job EXCEPT !.status = "done",
                     !.message = <<"Rendering complete">>,
                     !.output_path = Some(output_path),
                     !.progress = 100]

\* Outcome with the failure branch swallowed: a non-zero exit code leaves
\* the row as the read loop left it.
OutcomeSwallowsFailure(job, returncode, output_path) ==
    IF returncode # 0
    THEN job
    ELSE [job EXCEPT !.status = "done",
                     !.message = <<"Rendering complete">>,
                     !.output_path = Some(output_path),
                     !.progress = 100]

\* The terminal update after proc.wait() returned returncode.
Outcome(job, returncode, output_path) ==
    IF returncode # 0
    THEN [job EXCEPT !.status = "error", !.message = <<"FFmpeg failed">>]
    ELSE [job EXCEPT !.status = "done",
                     !.message = <<"Rendering complete">>,
                     !.output_path = Some(output_path),
                     !.progress = 100]

\* End of the side channel, proc.wait() and the terminal commit.
Finish(w, returncode) ==
    /\ pc[w] = "read"
    /\ procs' = [procs EXCEPT ![cur[w]] =
                   [@ EXCEPT !.state = "reaped", !.returncode = Some(returncode)]]
    /\ jobs' = [jobs EXCEPT ![cur[w]] = Outcome(@, returncode, OutputPath(cur[w]))]
    /\ Release(w)
    /\ UNCHANGED queue
    /\ UNCHANGED graph

\* ------------------------------------------------------------------- faults
\* Exceptions the environment can raise into render_job.
SpawnErrors ==
    { [type |-> "FileNotFoundError",
       text |-> <<"[Errno 2] No such file or directory: 'ffmpeg'">>],
      [type |-> "OSError", text |-> <<"[Errno 24] Too many open files">>] }

ReadErrors ==
    { [type |-> "OperationalError", text |-> <<"server closed the connection">>] }

\* The query or the first commit of render_job raises: nothing is written,
\* the exception leaves render_job and _run_job_in_thread closes the session.
FaultPickup(w) ==
    /\ pc[w] = "render_job"
    /\ Release(w)
    /\ UNCHANGED <<jobs, queue, procs>>
    /\ UNCHANGED graph

\* The first commit succeeds and reading the row back or rebuilding an
\* Overlay raises: these statements stand before the try block, so the
\* exception leaves render_job with the row as committed.
FaultLoad(w) ==
    /\ pc[w] = "render_job"
    /\ cur[w] \in JobIds
    /\ jobs' = [jobs EXCEPT ![cur[w]] = MarkProcessing(@)]
    /\ Release(w)
    /\ UNCHANGED <<queue, procs>>
    /\ UNCHANGED graph

\* subprocess.Popen raises e: no engine is started, the except clauses run.
FaultPopen(w, e) ==
    /\ pc[w] = "try"
    /\ ~build_filter_complex(jobs[cur[w]].overlays).raised
    /\ jobs' = [jobs EXCEPT ![cur[w]] = HandleException(@, e)]
    /\ Release(w)
    /\ UNCHANGED <<queue, procs>>
    /\ UNCHANGED graph

\* Reading a line or committing a progress update raises e inside the read
\* loop: the except clauses run, proc.wait() is never reached.
FaultRead(w, e) ==
    /\ pc[w] = "read"
    /\ jobs' = [jobs EXCEPT ![cur[w]] = HandleException(@, e)]
    /\ Release(w)
    /\ UNCHANGED <<queue, procs>>
    /\ UNCHANGED graph

\* The whole pipeline: up to MaxJobs submissions of any overlay list, the
\* side channel carrying the lines of QueueLines.
Next ==
    \/ \E overlays \in OverlayLists : Len(jobs) < MaxJobs /\ create_job(overlays)
    \/ \E w \in Workers : _run_job_in_thread(w)
    \/ \E w \in Workers : Pickup(w)
    \/ \E w \in Workers, run \in ProbeOutcomes : StartEngine(w, run)
    \/ \E w \in Workers, l \in QueueLines : ReadLine(w, l)
    \/ \E w \in Workers, returncode \in ExitCodes : Finish(w, returncode)

Spec == Init /\ [][Next]_vars

\* The progress stream in full: up to MaxRenders submissions, the side
\* channel carrying every line of ProgressLines.
NextProgress ==
    \/ \E overlays \in RenderLists : Len(jobs) < MaxRenders /\ create_job(overlays)
    \/ \E w \in Workers : _run_job_in_thread(w)
    \/ \E w \in Workers : Pickup(w)
    \/ \E w \in Workers, run \in ProbeOutcomes : StartEngine(w, run)
    \/ \E w \in Workers, l \in ProgressLines : ReadLine(w, l)
    \/ \E w \in Workers, returncode \in ExitCodes : Finish(w, returncode)

SpecProgress == Init /\ [][NextProgress]_vars

\* The pipeline of Spec in an environment that raises faults.
NextFault ==
    \/ \E overlays \in OverlayLists : Len(jobs) < MaxJobs /\ create_job(overlays)
    \/ \E w \in Workers : _run_job_in_thread(w)
    \/ \E w \in Workers : Pickup(w)
    \/ \E w \in Workers, run \in ProbeOutcomes : StartEngine(w, run)
    \/ \E w \in Workers, l \in QueueLines : ReadLine(w, l)
    \/ \E w \in Workers, returncode \in ExitCodes : Finish(w, returncode)
    \/ \E w \in Workers : FaultPickup(w)
    \/ \E w \in Workers : FaultLoad(w)
    \/ \E w \in Workers, e \in SpawnErrors : FaultPopen(w, e)
    \/ \E w \in Workers, e \in ReadErrors : FaultRead(w, e)

SpecFault == Init /\ [][NextFault]_vars

\* The pipeline of Spec with one kind of progress line: whether a job ends
\* does not depend on what its progress lines say, only on the loop that
\* reads them.
LiveLines == { [key |-> "out_time_ms", raw |-> <<"5", "0", "0", "0", "0", "0", "0">>] }

NextLive ==
    \/ \E overlays \in OverlayLists : Len(jobs) < MaxJobs /\ create_job(overlays)
    \/ \E w \in Workers : _run_job_in_thread(w)
    \/ \E w \in Workers : Pickup(w)
    \/ \E w \in Workers, run \in ProbeOutcomes : StartEngine(w, run)
    \/ \E w \in Workers, l \in LiveLines : ReadLine(w, l)
    \/ \E w \in Workers, returncode \in ExitCodes : Finish(w, returncode)

\* Fair scheduling: an executor thread that can take a work item takes it, a
\* thread inside render_job runs its next statement, and a started engine
\* process eventually closes its side channel and exits. Nothing obliges
\* the client to submit and nothing obliges the engine to write one more
\* progress line.
Fairness ==
    \A w \in Workers :
        /\ WF_vars(_run_job_in_thread(w))
        /\ WF_vars(Pickup(w))
        /\ WF_vars(\E run \in ProbeOutcomes : StartEngine(w, run))
        /\ WF_vars(\E returncode \in ExitCodes : Finish(w, returncode))

SpecLive == Init /\ [][NextLive]_vars /\ Fairness

\* ------------------------------------------------------- the job routes
\* GET /jobs/{job_id}: query the row and answer with its status, message
\* and progress, 404 for an unknown id. Nothing is written or committed.
get_job_status(job_id) == UNCHANGED vars

\* GET /jobs/{job_id}/detail: the same query, answering with the whole row.
get_job_detail(job_id) == UNCHANGED vars

\* GET /jobs/{job_id}/result: the same query, answering with the output
\* file of a done job and with an error otherwise.
download_result(job_id) == UNCHANGED vars

\* The pipeline of Spec with clients polling and downloading; id 0 is an
\* id no job has.
NextApi ==
    \/ \E overlays \in OverlayLists : Len(jobs) < MaxJobs /\ create_job(overlays)
    \/ \E w \in Workers : _run_job_in_thread(w)
    \/ \E w \in Workers : Pickup(w)
    \/ \E w \in Workers, run \in ProbeOutcomes : StartEngine(w, run)
    \/ \E w \in Workers, l \in QueueLines : ReadLine(w, l)
    \/ \E w \in Workers, returncode \in ExitCodes : Finish(w, returncode)
    \/ \E job_id \in 0..Len(jobs) : get_job_status(job_id)
    \/ \E job_id \in 0..Len(jobs) : get_job_detail(job_id)
    \/ \E job_id \in 0..Len(jobs) : download_result(job_id)

SpecApi == Init /\ [][NextApi]_vars

\* ------------------------------------------------- the graph builder alone
MaxOverlays == 3
MaxText == 3

\* The sequences over S of length at most n.
RECURSIVE SeqsOf(_, _)
SeqsOf(S, n) ==
    IF n = 0 THEN { <<>> }
    ELSE LET shorter == SeqsOf(S, n - 1)
         IN  shorter \cup { Append(q, x) : q \in shorter, x \in S }

\* An overlay of a kind build_filter_complex does not recognize; only a
\* direct caller can pass one, upload_job and render_job validate the kind.
UnknownOverlay == Overlay("audio", <<"track.mp3">>)

GraphOverlays ==
    { TextOverlay, LogoOverlay, ClipOverlay, GoneOverlay, UnknownOverlay }

\* Strings over the characters the drawtext options give a meaning to.
Alphabet == { "a", ":", "'", "\\" }
Strings == SeqsOf(Alphabet, MaxText)

\* One text overlay with the string as its content, its color or its box
\* color, and one with the box switched off.
StyledLists ==
    { <<Overlay("text", c)>> : c \in Strings }
    \cup { <<[TextOverlay EXCEPT !.color = Some(c)]>> : c \in Strings }
    \cup { <<[TextOverlay EXCEPT !.box_color = Some(c)]>> : c \in Strings }
    \cup { <<[TextOverlay EXCEPT !.box = Some(FALSE),
                                !.box_color = Some(<<":">>)]>> }

GraphLists == SeqsOf(GraphOverlays, MaxOverlays) \cup StyledLists

\* The row render_job builds the command for.
GraphJob == [input_path |-> join(UPLOAD_DIR, <<"0", ".mp4">>)]

InitGraph ==
    /\ jobs = <<>>
    /\ queue = <<>>
    /\ pc = [w \in Workers |-> "idle"]
    /\ cur = [w \in Workers |-> 0]
    /\ duration = [w \in Workers |-> None]
    /\ line = [w \in Workers |-> None]
    /\ procs = <<>>
    /\ graph \in { [overlays |-> l, result |-> None, cmd |-> None] : l \in GraphLists }

\* The call build_filter_complex(overlays) of render_job's try block.
Build ==
    /\ graph.result = None
    /\ graph' = [graph EXCEPT !.result = Some(build_filter_complex(graph.overlays))]
    /\ UNCHANGED <<jobs, queue, pc, cur, duration, line, procs>>

\* The command line render_job builds from what build_filter_complex
\* returned.
BuildCommand ==
    /\ graph.result # None
    /\ ~graph.result[1].raised
    /\ graph.cmd = None
    /\ graph' = [graph EXCEPT !.cmd = Some(Command(GraphJob, graph.result[1],
                                                   OutputPath(0)))]
    /\ UNCHANGED <<jobs, queue, pc, cur, duration, line, procs>>

NextGraph == Build \/ BuildCommand

SpecGraph == InitGraph /\ [][NextGraph]_vars

\* ------------------------------------------------------------------- claims
Processing == { j \in JobIds : jobs[j].status = "processing" }

Terminal == {"done", "error"}

\* C1: in every reachable state the number of jobs whose status is
\* processing is at most MAX_WORKERS, however many jobs were submitted.
C1_ProcessingBounded == Cardinality(Processing) <= MAX_WORKERS

\* More jobs than workers were submitted, MAX_WORKERS of them are processing
\* and another one waits in the queue.
C1_Witness ==
    /\ Len(jobs) > MAX_WORKERS
    /\ Cardinality(Processing) = MAX_WORKERS
    /\ queue # <<>>

\* C2: a job's status moves only pending -> processing -> done | error, and
\* once it is done or error its row never changes again.
C2_Lifecycle ==
    [][\A j \in JobIds :
         /\ jobs'[j].status # jobs[j].status =>
               \/ jobs[j].status = "pending" /\ jobs'[j].status = "processing"
               \/ jobs[j].status = "processing" /\ jobs'[j].status \in Terminal
         /\ jobs[j].status \in Terminal => jobs'[j] = jobs[j]]_vars

\* One job is done, one is error, and a worker is running a third.
C2_Witness ==
    /\ \E j \in JobIds : jobs[j].status = "done"
    /\ \E j \in JobIds : jobs[j].status = "error"
    /\ \E j \in JobIds : jobs[j].status = "processing"

\* C3: a job whose subprocess exited with code 0 is done with progress 100,
\* message "Rendering complete" and a non-empty output_path; and every done
\* job has progress 100 and its output_path set.
C3_ZeroExitIsDone ==
    \A j \in JobIds :
       /\ procs[j].returncode = Some(0) =>
             /\ jobs[j].status = "done"
             /\ jobs[j].progress = 100
             /\ jobs[j].message = <<"Rendering complete">>
             /\ jobs[j].output_path # None
             /\ Len(jobs[j].output_path[1]) > 0
       /\ jobs[j].status = "done" =>
             /\ jobs[j].progress = 100
             /\ jobs[j].output_path # None
             /\ procs[j].returncode = Some(0)

\* A job went from a progress line to exit code 0 and is done.
C3_Witness ==
    \E j \in JobIds :
       /\ procs[j].returncode = Some(0)
       /\ jobs[j].status = "done"
       /\ procs[j].state = "reaped"

\* C4: the step in which a job's subprocess is found to have exited with a
\* non-zero code makes the job error, leaves its progress as it was and its
\* output_path unset.
C4_NonZeroExitIsError ==
    [][\A j \in JobIds :
         (procs[j].returncode = None /\ procs'[j].returncode \notin {None, Some(0)}) =>
            /\ jobs'[j].status = "error"
            /\ jobs'[j].message = <<"FFmpeg failed">>
            /\ jobs'[j].progress = jobs[j].progress
            /\ jobs'[j].output_path = None]_vars

\* A job failed with exit code 2 after its progress had reached 50: the
\* progress is still 50.
C4_Witness ==
    \E j \in JobIds :
       /\ procs[j].returncode = Some(2)
       /\ jobs[j].status = "error"
       /\ jobs[j].progress = 50

\* C5: while a job stays processing, no step lowers its progress.
C5_ProgressMonotone ==
    [][\A j \in JobIds :
         (jobs[j].status = "processing" /\ jobs'[j].status = "processing") =>
            jobs'[j].progress >= jobs[j].progress]_vars

\* C6: every job's progress lies in [0, 100].
C6_ProgressInRange ==
    \A j \in JobIds : jobs[j].progress >= 0 /\ jobs[j].progress <= 100

\* C7: progress 100 only on a done job, and at most 99 while processing.
C7_HundredOnlyWhenDone ==
    \A j \in JobIds :
       /\ jobs[j].progress = 100 => jobs[j].status = "done"
       /\ jobs[j].status = "processing" => jobs[j].progress <= 99

TwelveSeconds ==
    [key |-> "out_time_ms", raw |-> <<"1", "2", "0", "0", "0", "0", "0", "0">>]

\* A worker has read out_time_ms=12000000 against a 10 s duration: the job
\* is processing at 99.
C7_Witness ==
    \E w \in Workers :
       /\ pc[w] = "read"
       /\ duration[w] = Some(10)
       /\ line[w] = Some(TwelveSeconds)
       /\ jobs[cur[w]].status = "processing"
       /\ jobs[cur[w]].progress = 99

\* The microseconds each modelled out_time_ms line carries; the empty tuple
\* for a line with no integer.
C8_Microseconds(l) ==
    IF l.key # "out_time_ms" THEN <<>>
    ELSE IF l.raw = <<"0">> THEN <<0>>
    ELSE IF l.raw = <<"1", "0", "0", "0", "0", "0", "0">> THEN <<1000000>>
    ELSE IF l.raw = <<"5", "0", "0", "0", "0", "0", "0">> THEN <<5000000>>
    ELSE IF l.raw = <<"1", "2", "0", "0", "0", "0", "0", "0">> THEN <<12000000>>
    ELSE IF l.raw = <<"-", "1", "0", "0", "0", "0", "0", "0">> THEN <<0 - 1000000>>
    ELSE <<>>

\* C8: after a worker's read loop has handled a line, if the line carries an
\* integer out_time_ms and the duration d is known and positive, the job's
\* progress p is min(99, elapsed / d * 100): 0, 10, 50 for 0, 1000000, 5000000
\* against 10 s; a line with no integer leaves the row as it was, processing.
C8_ProgressFormula ==
    [][\A w \in Workers :
         (pc[w] = "read" /\ pc'[w] = "read" /\ line'[w] # None) =>
            LET l == line'[w][1]
                us == C8_Microseconds(l)
                d == duration[w]
                p == jobs'[cur[w]].progress
            IN  /\ jobs'[cur[w]].status = "processing"
                /\ IF us # <<>> /\ d # None /\ d[1] > 0
                   THEN /\ p <= 99
                        /\ p < 99 => p * d[1] * 1000000 = us[1] * 100
                        /\ p = 99 => us[1] * 100 >= 99 * d[1] * 1000000
                        /\ (d[1] = 10 /\ us[1] = 0) => p = 0
                        /\ (d[1] = 10 /\ us[1] = 1000000) => p = 10
                        /\ (d[1] = 10 /\ us[1] = 5000000) => p = 50
                   ELSE jobs'[cur[w]] = jobs[cur[w]]]_vars

\* A worker with a 10 s duration read out_time_ms=N/A after the progress had
\* reached 50: the job is still processing at 50.
C8_Witness ==
    \E w \in Workers :
       /\ pc[w] = "read"
       /\ duration[w] = Some(10)
       /\ line[w] = Some([key |-> "out_time_ms", raw |-> <<"N", "/", "A">>])
       /\ jobs[cur[w]].status = "processing"
       /\ jobs[cur[w]].progress = 50

\* An image/video overlay whose content is neither an existing absolute
\* path nor the name of an existing file of the assets directory.
C9_Unresolved(o) ==
    /\ o.type \in {"image", "video"}
    /\ ~(isabs(o.content) /\ o.content \in FileSystem)
    /\ ~(~isabs(o.content) /\ (ASSETS_DIR \o o.content) \in FileSystem)

C9_HasUnresolved(j) ==
    \E k \in 1..Len(jobs[j].overlays) : C9_Unresolved(jobs[j].overlays[k])

\* C9: for a job with an unresolved media overlay no engine subprocess is
\* ever started and no worker gets to the read loop; the job is never done,
\* it is processing only while its worker is about to build the graph, and
\* when it is error its message is the not-found diagnostic of one of its
\* unresolved contents.
C9_MissingAssetFails ==
    \A j \in JobIds :
       C9_HasUnresolved(j) =>
          /\ procs[j].state = "none"
          /\ \A w \in Workers : cur[w] = j => pc[w] \in {"render_job", "try"}
          /\ jobs[j].status # "done"
          /\ jobs[j].status = "processing" => \E w \in Workers : cur[w] = j /\ pc[w] = "try"
          /\ jobs[j].status = "error" =>
                \E k \in 1..Len(jobs[j].overlays) :
                   /\ C9_Unresolved(jobs[j].overlays[k])
                   /\ Len(jobs[j].message) = 3
                   /\ jobs[j].message[1] = "Overlay asset not found"
                   /\ jobs[j].message[2] = jobs[j].overlays[k].content

\* A job whose second overlay does not resolve (the first does) is error,
\* and so is one whose absolute content does not exist.
C9_Witness ==
    /\ \E j \in JobIds :
          /\ jobs[j].overlays = <<LogoOverlay, GoneOverlay>>
          /\ jobs[j].status = "error"
    /\ \E j \in JobIds :
          /\ jobs[j].overlays = <<AbsGoneOverlay>>
          /\ jobs[j].status = "error"

\* C10: a job that is processing is being run by some worker, that is, no
\* fault makes a worker drop a job it has marked processing without taking
\* it to error.
C10_NoJobLeftProcessing ==
    \A j \in JobIds :
       jobs[j].status = "processing" => \E w \in Workers : cur[w] = j


\* C11: under fair scheduling, with every started engine process eventually
\* exiting, every submitted job eventually leaves pending and eventually is
\* done or error, however many jobs were submitted for MAX_WORKERS workers.
\* Job ids are never withdrawn, so a job submitted at some point is among
\* JobIds at every later point: if again and again every job of JobIds is
\* done or error, then each job, once submitted, left pending and became
\* done or error.
C11_EveryJobTerminates ==
    []<>(\A j \in JobIds : jobs[j].status \in Terminal)

\* More jobs than workers were submitted and every one of them, the ones
\* that had to wait for a slot included, is done or error.
C11_Witness ==
    /\ Len(jobs) > MAX_WORKERS
    /\ \A j \in JobIds : jobs[j].status \in Terminal
    /\ \E j \in JobIds : jobs[j].status = "done"


\* Worker w stops running job j and j is not done: the asset was not found,
\* the engine exited with a non-zero code, or a fault ended the work item.
C12_Fails(w, j) ==
    /\ j \in JobIds
    /\ cur[w] = j
    /\ cur'[w] = 0
    /\ jobs'[j].status # "done"

\* C12: the failure of one job (asset not found, non-zero exit or any fault)
\* leaves every other job's row and engine process unchanged, takes no job
\* out of the queue and disturbs no other worker, and the failed job's worker
\* is idle again; an idle worker always can take the oldest queued job.
C12_FailureIsIsolated ==
    /\ [][\A w \in Workers, j \in 1..MaxJobs :
            C12_Fails(w, j) =>
                /\ \A k \in JobIds \ {j} : jobs'[k] = jobs[k] /\ procs'[k] = procs[k]
                /\ Len(jobs') = Len(jobs)
                /\ queue' = queue
                /\ \A v \in Workers \ {w} :
                        /\ pc'[v] = pc[v] /\ cur'[v] = cur[v]
                        /\ duration'[v] = duration[v] /\ line'[v] = line[v]
                /\ pc'[w] = "idle"]_vars
    /\ [](\A w \in Workers :
            (pc[w] = "idle" /\ queue # <<>>) => ENABLED _run_job_in_thread(w))

\* One job failed, another is still running on its worker, and a job that
\* was submitted when both workers were taken is done: it ran on the slot
\* the failed job gave back.
C12_Witness ==
    \E a, b, c \in JobIds :
        /\ jobs[a].status = "error"
        /\ jobs[b].status = "processing" /\ \E w \in Workers : cur[w] = b
        /\ c > MAX_WORKERS /\ a <= MAX_WORKERS /\ b <= MAX_WORKERS
        /\ jobs[c].status = "done"


\* More jobs than workers were submitted and none of them has finished.
C13_NoneFinished ==
    /\ Len(jobs) > MAX_WORKERS
    /\ \A j \in JobIds : jobs[j].status \notin Terminal

\* C13 as stated: once MAX_WORKERS + 1 jobs were submitted and while none has
\* finished, at every instant exactly MAX_WORKERS jobs are processing and the
\* remaining job is pending.
C13_ExactlyMaxWorkers ==
    (Len(jobs) = MAX_WORKERS + 1 /\ C13_NoneFinished) =>
        /\ Cardinality(Processing) = MAX_WORKERS
        /\ Cardinality({ j \in JobIds : jobs[j].status = "pending" }) = 1

\* C13, amended: once more than MAX_WORKERS jobs were submitted and while
\* none has finished, at most MAX_WORKERS jobs are processing, exactly
\* MAX_WORKERS as soon as every worker has committed the pickup of its job,
\* and every job submitted after the first MAX_WORKERS is pending; such a
\* job leaves pending only when another job is done or error.
C13_SlotsFillUp ==
    /\ [](C13_NoneFinished =>
            /\ Cardinality(Processing) <= MAX_WORKERS
            /\ \A j \in JobIds : j > MAX_WORKERS => jobs[j].status = "pending"
            /\ (\A w \in Workers : pc[w] \in {"try", "read"}) =>
                    Cardinality(Processing) = MAX_WORKERS)
    /\ [][\A j \in JobIds :
            (j > MAX_WORKERS /\ jobs[j].status = "pending"
                             /\ jobs'[j].status # "pending") =>
                \E k \in JobIds \ {j} : jobs[k].status \in Terminal]_vars

\* MAX_WORKERS + 1 jobs, none finished, every worker reading its engine's
\* progress: MAX_WORKERS jobs are processing and the last one waits.
C13_Witness ==
    /\ Len(jobs) = MAX_WORKERS + 1
    /\ C13_NoneFinished
    /\ \A w \in Workers : pc[w] = "read"
    /\ Cardinality(Processing) = MAX_WORKERS
    /\ jobs[MAX_WORKERS + 1].status = "pending"
    /\ queue = <<MAX_WORKERS + 1>>


\* Job j was taken off the executor's queue by a worker.
C14_Taken(j) == \A p \in 1..Len(queue) : queue[p] # j

\* C14: jobs are taken in the order of their submission (job ids count the
\* submissions). If A was submitted before B then A is taken no later than
\* B: B is never taken while A waits, and the step that takes B finds A
\* taken already.
C14_Fifo ==
    /\ [](\A a, b \in JobIds : (a < b /\ C14_Taken(b)) => C14_Taken(a))
    /\ [][\A b \in JobIds :
            (~C14_Taken(b) /\ C14_Taken(b)') =>
                \A a \in JobIds : a < b => C14_Taken(a)]_vars

\* Completion is in either order: the later job B is done or error while
\* the earlier job A, taken before it, is still processing.
C14_Witness ==
    \E a, b \in JobIds :
        /\ a < b
        /\ jobs[b].status \in Terminal
        /\ jobs[a].status = "processing"
        /\ \E w \in Workers : cur[w] = a /\ pc[w] = "read"


\* C15: for the empty overlay list build_filter_complex returns an empty
\* graph, no extra inputs and no final label, and the engine process
\* render_job starts for such a job is the passthrough: the uploaded video
\* is its only input, audio and video are copied, and there is no filter
\* graph, no stream mapping and no encoder.
C15_EmptyIsPassthrough ==
    \A j \in JobIds :
        (Len(jobs[j].overlays) = 0 /\ procs[j].state # "none") =>
            LET g == build_filter_complex(jobs[j].overlays)
            IN  /\ ~g.raised
                /\ Len(g.filter_complex) = 0
                /\ Len(g.extra_inputs) = 0
                /\ g.final_label = None
                /\ procs[j].cmd.inputs = <<jobs[j].input_path>>
                /\ Len(procs[j].cmd.filter_complex) = 0
                /\ Len(procs[j].cmd.map) = 0
                /\ procs[j].cmd.codecs = <<"copy", "copy">>
                /\ procs[j].cmd.output = OutputPath(j)

\* A job without overlays ran its passthrough engine process to done.
C15_Witness ==
    \E j \in JobIds :
        /\ Len(jobs[j].overlays) = 0
        /\ procs[j].state = "reaped"
        /\ jobs[j].status = "done"


\* ------------------------------------------------- claims about the graph
\* build_filter_complex returned (it did not raise) for graph.overlays.
Built == graph.result # None /\ ~graph.result[1].raised

IsRecognized(o) == o.type \in OverlayTypes

Recognized(overlays) == { k \in 1..Len(overlays) : IsRecognized(overlays[k]) }

Texts(overlays) == { k \in 1..Len(overlays) : overlays[k].type = "text" }

\* The stages of the graph in the order the graph string lists them.
RECURSIVE Flatten(_)
Flatten(chains) ==
    IF Len(chains) = 0 THEN <<>> ELSE Head(chains) \o Flatten(Tail(chains))

Stages(g) == Flatten(g.filter_complex)

\* C16 as stated: the number of stages of the graph equals the number of
\* overlays of kind text, image or video.
C16_StagePerOverlay ==
    Built => Len(Stages(graph.result[1])) = Cardinality(Recognized(graph.overlays))

\* C16, amended: the graph has one chain per overlay of kind text, image or
\* video, a single drawtext stage for a text overlay and the three stages
\* scale, pad and overlay for an image or video overlay. An overlay of any
\* other kind contributes nothing and does not advance the label counter:
\* the i-th chain ends in [v(i-1)], and the result is the one the list
\* without these overlays gives.
C16_ChainPerOverlay ==
    Built =>
        LET g == graph.result[1]
            overlays == graph.overlays
            kept == SelectSeq(overlays, IsRecognized)
            nText == Cardinality(Texts(overlays))
            nMedia == Cardinality(Recognized(overlays)) - nText
        IN  /\ Len(g.filter_complex) = Cardinality(Recognized(overlays))
            /\ Len(Stages(g)) = nText + 3 * nMedia
            /\ \A i \in 1..Len(g.filter_complex) :
                    LET chain == g.filter_complex[i]
                    IN  /\ chain[Len(chain)].out = VideoLabel(i - 1)
                        /\ Len(chain) = IF kept[i].type = "text" THEN 1 ELSE 3
            /\ Len(kept) > 0 => g = build_filter_complex(kept)

\* A graph was built for a list holding a text overlay, an overlay of
\* another kind and, after it, an image or video overlay.
C16_Witness ==
    /\ Built
    /\ \E a, b, c \in 1..Len(graph.overlays) :
            /\ a < b /\ b < c
            /\ graph.overlays[a].type = "text"
            /\ ~IsRecognized(graph.overlays[b])
            /\ graph.overlays[c].type \in {"image", "video"}


\* The number of backslashes that stand right before position k of s.
RECURSIVE BackslashesBefore(_, _)
BackslashesBefore(s, k) ==
    IF k > 1 /\ s[k - 1] = "\\" THEN 1 + BackslashesBefore(s, k - 1) ELSE 0

\* The ':' or "'" at position k is not escaped: the backslashes before it
\* pair up to escaped backslashes and none is left for it.
Unescaped(s, k) ==
    /\ s[k] \in { ":", "'" }
    /\ BackslashesBefore(s, k) % 2 = 0

WellEscaped(s) == \A k \in 1..Len(s) : ~Unescaped(s, k)

\* C17: for every text overlay over an alphabet holding ':', "'" and the
\* backslash, the text argument of the drawtext stage holds no unescaped
\* ':' or "'", and neither do the color and the box color arguments.
C17_OptionsEscaped ==
    Built =>
        \A i \in 1..Len(Stages(graph.result[1])) :
            LET stage == Stages(graph.result[1])[i]
            IN  stage.filter = "drawtext" =>
                    /\ WellEscaped(stage.text)
                    /\ WellEscaped(stage.fontcolor)
                    /\ stage.boxcolor # None => WellEscaped(stage.boxcolor[1])


IsMedia(o) == o.type \in {"image", "video"}

IsScale(stage) == stage.filter = "scale"

\* C18: for every overlay list whose image and video overlays all resolve,
\* the k-th of them reads engine input k, extra_inputs holds exactly the
\* resolved paths in list order, and the command render_job builds passes
\* them as inputs in that order after the uploaded video, which is input 0.
C18_InputIndexContract ==
    Built =>
        LET g == graph.result[1]
            media == SelectSeq(graph.overlays, IsMedia)
            scales == SelectSeq(Stages(g), IsScale)
        IN  /\ Len(g.extra_inputs) = Len(media)
            /\ Len(scales) = Len(media)
            /\ \A k \in 1..Len(media) :
                    /\ g.extra_inputs[k] = resolve_overlay_path(media[k].content).path
                    /\ scales[k].inputs = <<InputLabel(k)>>
            /\ \A i \in 1..Len(Stages(g)) :
                    ~IsScale(Stages(g)[i]) =>
                        \A n \in 1..Len(Stages(g)[i].inputs), k \in 1..Len(media) :
                            Stages(g)[i].inputs[n] # InputLabel(k)
            /\ (graph.cmd # None /\ Len(media) > 0) =>
                    /\ Len(graph.cmd[1].inputs) = 1 + Len(media)
                    /\ graph.cmd[1].inputs[1] = GraphJob.input_path
                    /\ \A k \in 1..Len(media) :
                            graph.cmd[1].inputs[k + 1] = g.extra_inputs[k]

\* The command was built for a list with two different assets and a text
\* overlay before the second one.
C18_Witness ==
    /\ Built
    /\ graph.cmd # None
    /\ Len(graph.result[1].extra_inputs) >= 2
    /\ graph.result[1].extra_inputs[1] # graph.result[1].extra_inputs[2]
    /\ \E k \in 1..Len(graph.overlays) : graph.overlays[k].type = "text"


\* ------------------------------------------------------------ single writer
\* How many times job j stands in the executor's queue or in a worker's
\* hands.
C19_Holders(j) ==
    Cardinality({ p \in 1..Len(queue) : queue[p] = j })
        + Cardinality({ w \in Workers : cur[w] = j })

\* C19: every job row is written by one worker only. A job is enqueued once,
\* at its creation, and never again; it is held by the queue or by a single
\* worker, which took it from the head of the queue when nobody ran it; and
\* every step that changes an existing row is taken while exactly one worker
\* holds that job, the polling and download routes changing nothing.
C19_SingleWriter ==
    /\ [](\A j \in JobIds :
            /\ C19_Holders(j) <= 1
            /\ jobs[j].status = "pending" => C19_Holders(j) = 1
            /\ ~C14_Taken(j) => jobs[j].status = "pending")
    /\ [][\A j \in JobIds :
            /\ jobs'[j] # jobs[j] =>
                    Cardinality({ w \in Workers : cur[w] = j }) = 1
            /\ C14_Taken(j) => C14_Taken(j)'
            /\ \A w \in Workers :
                    (cur'[w] = j /\ cur[w] # j) =>
                        /\ queue # <<>> /\ Head(queue) = j
                        /\ \A v \in Workers : cur[v] # j]_vars

\* Two workers are in their read loops on different jobs and each has
\* written progress to its own row.
C19_Witness ==
    \E w, v \in Workers :
        /\ w # v
        /\ pc[w] = "read" /\ pc[v] = "read"
        /\ cur[w] # cur[v]
        /\ jobs[cur[w]].progress = 50
        /\ jobs[cur[v]].progress = 50


\* The stage of a chain that draws its overlay: the last one.
C20_Last(chain) == chain[Len(chain)]

\* How many stage inputs of the graph read the label.
C20_Readers(g, label) ==
    Cardinality({ <<i, n>> \in (1..Len(Stages(g))) \X (1..2) :
                    /\ n <= Len(Stages(g)[i].inputs)
                    /\ Stages(g)[i].inputs[n] = label })

\* C20: for a list with at least one overlay of kind text, image or video,
\* build_filter_complex composes one chain in list order: the first
\* recognized overlay's stage reads [0:v], the i-th reads the output label
\* of the (i-1)-th, every output label is produced once and read at most
\* once, and the final label is the last recognized overlay's output label.
C20_SequentialChain ==
    (Built /\ Cardinality(Recognized(graph.overlays)) > 0) =>
        LET g == graph.result[1]
            chains == g.filter_complex
            kept == SelectSeq(graph.overlays, IsRecognized)
            stages == Stages(g)
        IN  /\ Len(chains) = Len(kept)
            /\ C20_Last(chains[1]).inputs[1] = PrimaryLabel
            /\ \A i \in 2..Len(chains) :
                    C20_Last(chains[i]).inputs[1] = C20_Last(chains[i - 1]).out
            /\ \A i \in 1..Len(chains) :
                    IF kept[i].type = "text"
                    THEN /\ C20_Last(chains[i]).filter = "drawtext"
                         /\ C20_Last(chains[i]).text = escape(kept[i].content)
                    ELSE C20_Last(chains[i]).filter = "overlay"
            /\ \A a, b \in 1..Len(stages) : a # b => stages[a].out # stages[b].out
            /\ \A a \in 1..Len(stages) : C20_Readers(g, stages[a].out) <= 1
            /\ C20_Readers(g, PrimaryLabel) = 1
            /\ g.final_label = Some(C20_Last(chains[Len(chains)]).out)
            /\ C20_Readers(g, g.final_label[1]) = 0

\* A graph of a media chain and a later text chain, built for a list that
\* starts with an overlay of another kind: the final label is [v1].
C20_Witness ==
    /\ Built
    /\ Len(graph.result[1].filter_complex) >= 2
    /\ ~IsRecognized(graph.overlays[1])
    /\ \E a, b \in 1..Len(graph.overlays) :
            /\ a < b
            /\ IsMedia(graph.overlays[a])
            /\ graph.overlays[b].type = "text"
    /\ graph.result[1].final_label = Some(VideoLabel(1))


\* ------------------------------------------------------ subprocess lifetime
\* The engine processes that were started and not waited for.
C21_Live == { j \in JobIds : procs[j].state = "running" }

\* C21: a job holds its worker slot for the whole life of its engine
\* process: on every exit path of render_job, a fault inside the read loop
\* included, the worker is released only after the process exited and was
\* reaped, so every live process belongs to a job some worker is running
\* and there are never more than MAX_WORKERS of them.
C21_SlotHeldUntilReaped ==
    /\ \A j \in C21_Live : \E w \in Workers : cur[w] = j /\ pc[w] = "read"
    /\ Cardinality(C21_Live) <= MAX_WORKERS


\* ----------------------------------------------------------- failed probe
\* Worker w is in its read loop without a usable duration: the probe
\* raised, exited non-zero, printed no number, or printed a duration that
\* is not positive.
C22_NoDuration(w) ==
    /\ pc[w] = "read"
    /\ \/ duration[w] = None
       \/ duration[w] # None /\ duration[w][1] <= 0

\* C22: when the duration probe fails, prints no number or prints a
\* non-positive duration, the engine still runs and no progress line ever
\* changes the row: the job is processing with the pickup progress 1 as
\* long as the read loop lasts, and it ends done with progress 100 on exit
\* code 0 and error on any other exit code.
C22_ProbeFailureDegrades ==
    /\ [](\A w \in Workers :
            C22_NoDuration(w) =>
                /\ procs[cur[w]].state = "running"
                /\ jobs[cur[w]].status = "processing"
                /\ jobs[cur[w]].progress = 1)
    /\ [][\A w \in Workers :
            C22_NoDuration(w) =>
                LET j == cur[w]
                IN  IF pc'[w] = "read"
                    THEN jobs'[j] = jobs[j]
                    ELSE /\ procs'[j].state = "reaped"
                         /\ IF procs'[j].returncode = Some(0)
                            THEN /\ jobs'[j].status = "done"
                                 /\ jobs'[j].progress = 100
                            ELSE /\ jobs'[j].status = "error"
                                 /\ jobs'[j].progress = 1]_vars

\* A worker without a usable duration has just read a numeric out_time_ms
\* line and the row still shows progress 1.
C22_Witness ==
    \E w \in Workers :
        /\ C22_NoDuration(w)
        /\ line[w] # None
        /\ line[w][1].key = "out_time_ms"
        /\ AllDigits(line[w][1].raw)
        /\ jobs[cur[w]].progress = 1


====
